---- MODULE Spec2Model ----
(***************************************************************************)
(* Model of durable-object-starter (src/src/index.ts): the Worker's fetch  *)
(* handler (bearer-token check, domain parameter, POST body validation)    *)
(* and the MyDurableObject class it forwards to (trackDomainRequest,       *)
(* getDomainRequests, submitDomainOffer, getDomainOffers), each Durable    *)
(* Object keeping its value under the storage key "domain:<domain>".       *)
(***************************************************************************)
EXTENDS Integers, Sequences, FiniteSets, TLC

\* ------------------------------------------------------------------ bounds
MaxReqs == 3        \* requests (or direct calls) in one behaviour
MaxTime == 1        \* the clock runs 0..MaxTime
MaxFailures == 1    \* storage operations that may fail in one behaviour
MaxHdrLen == 5      \* atoms of an Authorization header value

\* ------------------------------------------------------- JavaScript values
\* A JavaScript value, tagged with its type: undefined, null, a string, a
\* number, NaN, or an array (of offers).
Undefined == [t |-> "undefined", s |-> "", n |-> 0, a |-> <<>>]
Null == [t |-> "null", s |-> "", n |-> 0, a |-> <<>>]
NaN == [t |-> "nan", s |-> "", n |-> 0, a |-> <<>>]
Str(s) == [t |-> "string", s |-> s, n |-> 0, a |-> <<>>]
Num(n) == [t |-> "number", s |-> "", n |-> n, a |-> <<>>]
Arr(a) == [t |-> "array", s |-> "", n |-> 0, a |-> a]

\* ToBoolean: what `!v` and `v || d` test.
Truthy(v) ==
  CASE v.t = "string" -> v.s # ""
    [] v.t = "number" -> v.n # 0
    [] v.t = "array" -> TRUE
    [] OTHER -> FALSE

\* `v || d`
OrElse(v, d) == IF Truthy(v) THEN v ELSE d

\* ToNumber, as `requests++` applies it to what was read: [] is 0, an array
\* holding offer objects is NaN (its string is "[object Object]").
ToNumber(v) ==
  CASE v.t = "number" -> v
    [] v.t = "array" -> IF v.a = <<>> THEN Num(0) ELSE NaN
    [] v.t = "null" -> Num(0)
    [] v.t = "string" -> IF v.s = "" THEN Num(0) ELSE NaN
    [] OTHER -> NaN

\* Mutant: the count is stored as read, without the increment.
Increment_none(v) == IF ToNumber(v).t = "number" THEN ToNumber(v) ELSE NaN

\* `requests++` : the new value of requests.
Increment(v) == IF ToNumber(v).t = "number" THEN Num(ToNumber(v).n + 1) ELSE NaN

\* --------------------------------------------------------------- constants
AUTH_TOKEN == "YELLOW_BEAR_SUN"
BearerPrefix == <<"Bearer", " ">>

corsHeaders ==
  { <<"Access-Control-Allow-Origin", "https://agi-2025.com">>,
    <<"Access-Control-Allow-Methods", "GET,HEAD,POST,OPTIONS">>,
    <<"Access-Control-Allow-Headers", "Content-Type,Authorization">>,
    <<"Access-Control-Max-Age", "86400">> }

JsonContentType == <<"Content-Type", "application/json">>

Domains == {"a.com", "b.org"}

\* `domain:${domain}` , the storage key
StorageKey(domain) == "domain:" \o domain
\* `domain-offers:${domain}` , the name the object id is derived from
ObjectName(domain) == "domain-offers:" \o domain
\* Mutant: every name resolves to the same object.
idFromName_one(name) == <<"id", "domain-offers:a.com">>

\* idFromName: one id per distinct name
idFromName(name) == <<"id", name>>

ObjectIds == {idFromName(ObjectName(d)) : d \in Domains}
Keys == {StorageKey(d) : d \in Domains}
NoStub == <<"id", "">>

\* ------------------------------------------------------ Authorization header
\* A header value is a sequence of atoms; the string is their concatenation.
\* "x" stands for any other non-empty text without a space.
Atoms == {"Bearer", " ", AUTH_TOKEN, "x"}

RECURSIVE SeqsUpTo(_, _)
SeqsUpTo(S, n) ==
  IF n = 0 THEN {<<>>}
  ELSE LET shorter == SeqsUpTo(S, n - 1)
       IN shorter \cup {Append(q, x) : q \in shorter, x \in S}

\* Headers.get() hands back the value with leading and trailing whitespace
\* removed, or null when the header is absent.
Trimmed(v) == v = <<>> \/ (v[1] # " " /\ v[Len(v)] # " ")
NoHeader == [null |-> TRUE, v |-> <<>>]
Header(v) == [null |-> FALSE, v |-> v]
AllHeaders == {NoHeader} \cup {Header(v) : v \in {w \in SeqsUpTo(Atoms, MaxHdrLen) : Trimmed(w)}}

\* String.prototype.startsWith
StartsWith(v, prefix) ==
  Len(v) >= Len(prefix) /\ SubSeq(v, 1, Len(prefix)) = prefix

\* String.prototype.split(' '): the pieces between the spaces
RECURSIVE Split(_)
Split(v) ==
  IF \A i \in 1..Len(v) : v[i] # " " THEN <<v>>
  ELSE LET i == CHOOSE j \in 1..Len(v) : v[j] = " " /\ \A k \in 1..(j - 1) : v[k] # " "
       IN <<SubSeq(v, 1, i - 1)>> \o Split(SubSeq(v, i + 1, Len(v)))

\* authToken.split(' ')[1] !== env.AUTH_TOKEN
SecondPieceDiffers(v) ==
  Len(Split(v)) < 2 \/ Split(v)[2] # <<AUTH_TOKEN>>

\* Mutant: the 'Bearer ' prefix is not required.
Unauthorized_noPrefix(authToken) ==
  \/ authToken.null
  \/ authToken.v = <<>>
  \/ SecondPieceDiffers(authToken.v)

\* The condition of the 401 branch:
\* !authToken || !authToken.startsWith('Bearer ') || authToken.split(' ')[1] !== env.AUTH_TOKEN
Unauthorized(authToken) ==
  \/ authToken.null
  \/ authToken.v = <<>>
  \/ ~StartsWith(authToken.v, BearerPrefix)
  \/ SecondPieceDiffers(authToken.v)

\* ------------------------------------------------------------------- state
VARIABLES
  storage,   \* storage[o][k]: the value object o keeps under key k
  gate,      \* gate[o]: the call whose storage operations hold o's input gate, 0 when open
  pc,        \* pc[r]: where request r is
  request,   \* request[r]: method, Authorization header, domain parameter, body
  call,      \* call[r]: the object method r invokes, and its arguments
  stub,      \* stub[r]: the object r resolved
  local,     \* local[r]: the method's local (offers / requests)
  ret,       \* ret[r]: what the method returned
  resp,      \* resp[r]: the response to r
  now,       \* the server clock
  failures,  \* storage failures so far
  hist,      \* history: per object and key, what completed there, in order
  seen,      \* seen[r]: the history as it was when r's method read or wrote
  began      \* began[r]: the clock when r's submitDomainOffer started to run

vars == <<storage, gate, pc, request, call, stub, local, ret, resp, now, failures, hist, seen, began>>

ReqIds == 1..MaxReqs

NoRequest == [method |-> "", auth |-> NoHeader, domain |-> Null, body |-> [kind |-> "none"]]
NoCall == [op |-> "", domain |-> "", offer |-> [email |-> Undefined, amount |-> Undefined, description |-> Undefined]]
NoResponse == [status |-> 0, body |-> [kind |-> "none"], headers |-> {}, by |-> ""]
NoHist == [offers |-> <<>>, tracks |-> 0, submits |-> 0]

Init ==
  /\ storage = [o \in ObjectIds |-> [k \in Keys |-> Undefined]]
  /\ gate = [o \in ObjectIds |-> 0]
  /\ pc = [r \in ReqIds |-> "idle"]
  /\ request = [r \in ReqIds |-> NoRequest]
  /\ call = [r \in ReqIds |-> NoCall]
  /\ stub = [r \in ReqIds |-> NoStub]
  /\ local = [r \in ReqIds |-> Undefined]
  /\ ret = [r \in ReqIds |-> [kind |-> "none"]]
  /\ resp = [r \in ReqIds |-> NoResponse]
  /\ now = 0
  /\ failures = 0
  /\ hist = [o \in ObjectIds |-> [k \in Keys |-> NoHist]]
  /\ seen = [r \in ReqIds |-> NoHist]
  /\ began = [r \in ReqIds |-> 0]

\* ------------------------------------------------------- MyDurableObject
\* new Date().toISOString(): fixed-width decimal fields, most significant
\* first, so that the strings order as the instants do.
toISOString(ms) == <<(ms \div 100) % 10, (ms \div 10) % 10, ms % 10>>

\* Mutant: no input gate, a call is delivered while another awaits storage.
InputGateOpen_always(o) == TRUE

\* The Durable Object runtime delivers no other event to an object while a
\* storage operation of it is awaited: a method's awaited get and the put
\* that follows it with no other await in between run with the gate closed.
InputGateOpen(o) == gate[o] = 0

\* A storage operation completes, or (a bounded number of times) fails.
StorageOutcomes == IF failures < MaxFailures THEN {"ok", "error"} ELSE {"ok"}

\* Mutant: the stored offers are not read, every call starts from [].
ReadOffers_fresh(o, domain) == Arr(<<>>)

\* (await this.ctx.storage.get<DomainOffer[]>(`domain:${domain}`)) || []
ReadOffers(o, domain) == OrElse(storage[o][StorageKey(domain)], Arr(<<>>))
\* (await this.ctx.storage.get<number>(`domain:${domain}`)) || 0
ReadRequests(o, domain) == OrElse(storage[o][StorageKey(domain)], Num(0))

\* Mutant: the stamp is taken once, when the module loads.
NewOffer_stale(offer, ms) ==
  [email |-> offer.email, amount |-> offer.amount,
   description |-> offer.description, timestamp |-> toISOString(0)]

\* { ...offer, timestamp: new Date().toISOString() }
NewOffer(offer, ms) ==
  [email |-> offer.email, amount |-> offer.amount,
   description |-> offer.description, timestamp |-> toISOString(ms)]

\* Mutant: a rejected put has written the list all the same.
AfterFailedPut_written(old, new) == new

\* line 66, await this.ctx.storage.put(...) rejecting: the key keeps its value.
AfterFailedPut(old, new) == old

\* Mutant: unshift in place of push.
Push_unshift(offers, newOffer) == <<newOffer>> \o offers

\* offers.push(newOffer)
Push(offers, newOffer) == Append(offers, newOffer)

\* The method throws: a failed storage operation, or a TypeError.
Threw(r, name) ==
  /\ pc' = [pc EXCEPT ![r] = "threw"]
  /\ ret' = [ret EXCEPT ![r] = [kind |-> "exception", name |-> name]]

\* submitDomainOffer, line 56: the call is delivered and reads the stored offers.
SubmitGet(r) ==
  /\ pc[r] = "called" /\ call[r].op = "submitDomainOffer"
  /\ InputGateOpen(stub[r])
  /\ \E outcome \in StorageOutcomes :
       LET o == stub[r]
           k == StorageKey(call[r].domain)
       IN IF outcome = "ok"
          THEN /\ local' = [local EXCEPT ![r] = ReadOffers(o, call[r].domain)]
               /\ gate' = [gate EXCEPT ![o] = r]
               /\ pc' = [pc EXCEPT ![r] = "submit.put"]
               /\ hist' = [hist EXCEPT ![o][k].submits = @ + 1]
               /\ began' = [began EXCEPT ![r] = now]
               /\ UNCHANGED <<failures, ret>>
          ELSE /\ Threw(r, "StorageError")
               /\ failures' = failures + 1
               /\ UNCHANGED <<local, gate, hist, began>>
  /\ UNCHANGED <<storage, request, call, stub, resp, now, seen>>

\* submitDomainOffer, lines 58-72: stamp, push, put the whole list, return.
\* push on a value that is no array (a stored number) is a TypeError.
SubmitPut(r) ==
  /\ pc[r] = "submit.put"
  /\ \E outcome \in StorageOutcomes :
       LET o == stub[r]
           k == StorageKey(call[r].domain)
           newOffer == NewOffer(call[r].offer, now)
           offers == Push(local[r].a, newOffer)
       IN IF local[r].t = "array" /\ outcome = "ok"
          THEN /\ storage' = [storage EXCEPT ![o][k] = Arr(offers)]
               /\ ret' = [ret EXCEPT ![r] = [kind |-> "submit", domain |-> call[r].domain,
                                             offer |-> newOffer, totalOffers |-> Len(offers)]]
               /\ hist' = [hist EXCEPT ![o][k].offers = Append(@, call[r].offer)]
               /\ seen' = [seen EXCEPT ![r] = hist'[o][k]]
               /\ pc' = [pc EXCEPT ![r] = "returned"]
               /\ UNCHANGED failures
          ELSE /\ Threw(r, IF local[r].t = "array" THEN "StorageError" ELSE "TypeError")
               /\ failures' = IF local[r].t = "array" THEN failures + 1 ELSE failures
               /\ storage' = [storage EXCEPT ![o][k] =
                                IF local[r].t = "array" THEN AfterFailedPut(@, Arr(offers)) ELSE @]
               /\ UNCHANGED <<hist, seen>>
  /\ gate' = [gate EXCEPT ![stub[r]] = 0]
  /\ UNCHANGED <<request, call, stub, local, resp, now, began>>

\* getDomainOffers, lines 75-77
GetOffers(r) ==
  /\ pc[r] = "called" /\ call[r].op = "getDomainOffers"
  /\ InputGateOpen(stub[r])
  /\ \E outcome \in StorageOutcomes :
       IF outcome = "ok"
       THEN /\ ret' = [ret EXCEPT ![r] = [kind |-> "offers", value |-> ReadOffers(stub[r], call[r].domain)]]
            /\ seen' = [seen EXCEPT ![r] = hist[stub[r]][StorageKey(call[r].domain)]]
            /\ pc' = [pc EXCEPT ![r] = "returned"]
            /\ UNCHANGED failures
       ELSE /\ Threw(r, "StorageError")
            /\ failures' = failures + 1
            /\ UNCHANGED seen
  /\ UNCHANGED <<storage, gate, request, call, stub, local, resp, now, hist, began>>

\* trackDomainRequest, line 37: the call is delivered and reads the stored count.
TrackGet(r) ==
  /\ pc[r] = "called" /\ call[r].op = "trackDomainRequest"
  /\ InputGateOpen(stub[r])
  /\ \E outcome \in StorageOutcomes :
       IF outcome = "ok"
       THEN /\ local' = [local EXCEPT ![r] = ReadRequests(stub[r], call[r].domain)]
            /\ gate' = [gate EXCEPT ![stub[r]] = r]
            /\ pc' = [pc EXCEPT ![r] = "track.put"]
            /\ UNCHANGED <<failures, ret>>
       ELSE /\ Threw(r, "StorageError")
            /\ failures' = failures + 1
            /\ UNCHANGED <<local, gate>>
  /\ UNCHANGED <<storage, request, call, stub, resp, now, hist, seen, began>>

\* trackDomainRequest, lines 38-47: requests++, put, return.
TrackPut(r) ==
  /\ pc[r] = "track.put"
  /\ \E outcome \in StorageOutcomes :
       LET o == stub[r]
           k == StorageKey(call[r].domain)
           requests == Increment(local[r])
       IN IF outcome = "ok"
          THEN /\ storage' = [storage EXCEPT ![o][k] = requests]
               /\ ret' = [ret EXCEPT ![r] = [kind |-> "track", domain |-> call[r].domain,
                                             requests |-> requests, timestamp |-> toISOString(now)]]
               /\ hist' = [hist EXCEPT ![o][k].tracks = @ + 1]
               /\ seen' = [seen EXCEPT ![r] = hist'[o][k]]
               /\ pc' = [pc EXCEPT ![r] = "returned"]
               /\ UNCHANGED failures
          ELSE /\ Threw(r, "StorageError")
               /\ failures' = failures + 1
               /\ UNCHANGED <<storage, hist, seen>>
  /\ gate' = [gate EXCEPT ![stub[r]] = 0]
  /\ UNCHANGED <<request, call, stub, local, resp, now, began>>

\* getDomainRequests, lines 50-52
GetRequests(r) ==
  /\ pc[r] = "called" /\ call[r].op = "getDomainRequests"
  /\ InputGateOpen(stub[r])
  /\ \E outcome \in StorageOutcomes :
       IF outcome = "ok"
       THEN /\ ret' = [ret EXCEPT ![r] = [kind |-> "requests", value |-> ReadRequests(stub[r], call[r].domain)]]
            /\ seen' = [seen EXCEPT ![r] = hist[stub[r]][StorageKey(call[r].domain)]]
            /\ pc' = [pc EXCEPT ![r] = "returned"]
            /\ UNCHANGED failures
       ELSE /\ Threw(r, "StorageError")
            /\ failures' = failures + 1
            /\ UNCHANGED seen
  /\ UNCHANGED <<storage, gate, request, call, stub, local, resp, now, hist, began>>

\* The clock advances.
Tick ==
  /\ now < MaxTime
  /\ now' = now + 1
  /\ UNCHANGED <<storage, gate, pc, request, call, stub, local, ret, resp, failures, hist, seen, began>>

\* ----------------------------------------------------------------- fetch
\* JSON.stringify: a property whose value is undefined is left out, NaN is null.
JsonValue(v) == IF v.t = "nan" THEN Null ELSE v
JsonOffer(offer) ==
  IF offer.description.t = "undefined"
  THEN [email |-> JsonValue(offer.email), amount |-> JsonValue(offer.amount),
        timestamp |-> offer.timestamp]
  ELSE [email |-> JsonValue(offer.email), amount |-> JsonValue(offer.amount),
        description |-> JsonValue(offer.description), timestamp |-> offer.timestamp]
JsonOffers(v) ==
  IF v.t = "array" THEN [i \in 1..Len(v.a) |-> JsonOffer(v.a[i])] ELSE JsonValue(v)

\* new Response(body, { status, headers }); status defaults to 200
Response(body, status, headers) ==
  [status |-> status, body |-> body, headers |-> headers, by |-> "fetch"]
Text(s) == [kind |-> "text", text |-> s]
NoBody == [kind |-> "null"]
\* An exception that escapes fetch: the runtime answers, not the handler.
RuntimeError == [status |-> 500, body |-> [kind |-> "error"], headers |-> {}, by |-> "runtime"]

\* Mutant: the method is compared with the wrong case.
IsPreflight_lowercase(method) == method = "options"

\* request.method === 'OPTIONS'
IsPreflight(method) == method = "OPTIONS"
\* Mutant: only an absent parameter counts, an empty one passes.
DomainMissing_nullOnly(domain) == domain.t = "null"

\* Mutant: the check is skipped.
DomainMissing_never(domain) == FALSE

\* !domain
DomainMissing(domain) == ~Truthy(domain)
\* request.json() rejects (no JSON), or the destructuring of null throws
BodyThrows(body) == body.kind \in {"malformed", "null"}
\* Mutant: && in place of ||.
FieldsMissing_and(body) == ~Truthy(body.email) /\ ~Truthy(body.amount)

\* Mutant: only the email is validated.
FieldsMissing_emailOnly(body) == ~Truthy(body.email)

\* !email || !amount
FieldsMissing(body) == ~Truthy(body.email) \/ ~Truthy(body.amount)

Answer(r, response) ==
  /\ resp' = [resp EXCEPT ![r] = response]
  /\ pc' = [pc EXCEPT ![r] = "done"]

Invoke(r, op, domain, offer) ==
  /\ call' = [call EXCEPT ![r] = [op |-> op, domain |-> domain, offer |-> offer]]
  /\ pc' = [pc EXCEPT ![r] = "called"]
  /\ UNCHANGED resp

\* fetch, lines 89-139 and 150-152: from the request to its first response or
\* to the call on the stub.
Fetch(r, q) ==
  /\ pc[r] = "idle"
  /\ request' = [request EXCEPT ![r] = q]
  /\ IF IsPreflight(q.method)
     THEN /\ Answer(r, Response(NoBody, 200, corsHeaders))
          /\ UNCHANGED <<stub, call>>
     ELSE IF Unauthorized(q.auth)
     THEN /\ Answer(r, Response(Text("Unauthorized"), 401, corsHeaders \cup {JsonContentType}))
          /\ UNCHANGED <<stub, call>>
     ELSE IF DomainMissing(q.domain)
     THEN /\ Answer(r, Response(Text("Domain parameter is required"), 400, {}))
          /\ UNCHANGED <<stub, call>>
     ELSE /\ stub' = [stub EXCEPT ![r] = idFromName(ObjectName(q.domain.s))]
          /\ IF q.method = "POST"
             THEN IF BodyThrows(q.body)
                  THEN /\ Answer(r, Response(Text("Invalid request body"), 400, corsHeaders))
                       /\ UNCHANGED call
                  ELSE IF FieldsMissing(q.body)
                  THEN /\ Answer(r, Response(Text("Email and amount are required"), 400, corsHeaders))
                       /\ UNCHANGED call
                  ELSE Invoke(r, "submitDomainOffer", q.domain.s,
                              [email |-> q.body.email, amount |-> q.body.amount,
                               description |-> q.body.description])
             ELSE Invoke(r, "getDomainOffers", q.domain.s, NoCall.offer)
  /\ UNCHANGED <<storage, gate, local, ret, now, failures, hist, seen, began>>

\* fetch, lines 141-149: the result of submitDomainOffer as JSON, or the catch.
PostRespond(r) ==
  /\ pc[r] \in {"returned", "threw"}
  /\ request[r].method = "POST"
  /\ IF pc[r] = "returned"
     THEN Answer(r, Response([kind |-> "json",
                              json |-> [domain |-> ret[r].domain,
                                        offer |-> JsonOffer(ret[r].offer),
                                        totalOffers |-> ret[r].totalOffers]],
                             200, corsHeaders \cup {JsonContentType}))
     ELSE Answer(r, Response(Text("Invalid request body"), 400, corsHeaders))
  /\ UNCHANGED <<storage, gate, request, call, stub, local, ret, now, failures, hist, seen, began>>

\* fetch, lines 152-155: { domain, offers } as JSON; an exception of the call
\* is not caught.
GetRespond(r) ==
  /\ pc[r] \in {"returned", "threw"}
  /\ request[r].method \notin {"", "POST"}
  /\ IF pc[r] = "returned"
     THEN Answer(r, Response([kind |-> "json",
                              json |-> [domain |-> request[r].domain.s,
                                        offers |-> JsonOffers(ret[r].value)]],
                             200, corsHeaders \cup {JsonContentType}))
     ELSE Answer(r, RuntimeError)
  /\ UNCHANGED <<storage, gate, request, call, stub, local, ret, now, failures, hist, seen, began>>

\* ------------------------------------------------------ calls on a stub
\* Another Worker calls a method of object o over RPC.
DirectCall(r, op, o, domain, offer) ==
  /\ pc[r] = "idle"
  /\ stub' = [stub EXCEPT ![r] = o]
  /\ Invoke(r, op, domain, offer)
  /\ UNCHANGED <<storage, gate, request, local, ret, now, failures, hist, seen, began>>

DirectReturn(r) ==
  /\ pc[r] \in {"returned", "threw"}
  /\ request[r].method = ""
  /\ pc' = [pc EXCEPT ![r] = IF pc[r] = "returned" THEN "done" ELSE "failed"]
  /\ UNCHANGED <<storage, gate, request, call, stub, local, ret, resp, now, failures, hist, seen, began>>

\* ------------------------------------------------------------------ inputs
Bearer(v) == Header(BearerPrefix \o v)
ValidAuth == Bearer(<<AUTH_TOKEN>>)

Body(email, amount, description) ==
  [kind |-> "object", email |-> email, amount |-> amount, description |-> description]
Malformed == [kind |-> "malformed"]
NullBody == [kind |-> "null"]
EmptyObject == Body(Undefined, Undefined, Undefined)
OfferA == Body(Str("a@b.com"), Num(500), Undefined)
OfferB == Body(Str("c@d.com"), Num(7), Str("note"))

Req(method, auth, domain, body) ==
  [method |-> method, auth |-> auth, domain |-> domain, body |-> body]

\* The requests of the concurrent specification: offers on two domains, a
\* read, and an offer without its fields.
Workload ==
  {Req("POST", ValidAuth, Str("a.com"), OfferA),
   Req("POST", ValidAuth, Str("a.com"), OfferB),
   Req("POST", ValidAuth, Str("b.org"), OfferA),
   Req("GET", ValidAuth, Str("a.com"), [kind |-> "none"]),
   Req("POST", ValidAuth, Str("a.com"), EmptyObject)}

\* The requests of the router specification: every header value, method,
\* domain parameter and body below.
Methods == {"OPTIONS", "GET", "POST", "DELETE"}
DomainParams == {Null, Str(""), Str("a.com")}
Bodies == {Malformed, EmptyObject, OfferA}
AllRequests ==
  {Req(m, h, d, b) : m \in Methods, h \in AllHeaders, d \in DomainParams, b \in Bodies}

\* The calls of the ledger specification: the four methods of one object,
\* on either domain.
LedgerObject == idFromName(ObjectName("a.com"))
LedgerDomains == {"a.com"}
OfferOf(b) == [email |-> b.email, amount |-> b.amount, description |-> b.description]
Calls ==
  {[op |-> op, domain |-> d, offer |-> NoCall.offer] :
     op \in {"trackDomainRequest", "getDomainRequests", "getDomainOffers"}, d \in LedgerDomains}
  \cup {[op |-> "submitDomainOffer", domain |-> d, offer |-> OfferOf(OfferA)] :
          d \in LedgerDomains}

\* Request slots are taken in order: slot r holds the r-th request to arrive.
Arrives(r) == pc[r] = "idle" /\ \A p \in 1..(r - 1) : pc[p] # "idle"

\* ---------------------------------------------------------- specifications
\* Concurrent requests through fetch.
Next ==
  \/ \E r \in ReqIds : Arrives(r) /\ \E q \in Workload : Fetch(r, q)
  \/ \E r \in ReqIds : SubmitGet(r)
  \/ \E r \in ReqIds : SubmitPut(r)
  \/ \E r \in ReqIds : GetOffers(r)
  \/ \E r \in ReqIds : PostRespond(r)
  \/ \E r \in ReqIds : GetRespond(r)

Spec == Init /\ [][Next]_vars

\* One request through fetch, of any shape.
NextRouter ==
  \/ Arrives(1) /\ \E q \in AllRequests : Fetch(1, q)
  \/ SubmitGet(1)
  \/ SubmitPut(1)
  \/ GetOffers(1)
  \/ PostRespond(1)
  \/ GetRespond(1)

SpecRouter == Init /\ [][NextRouter]_vars

\* One request through fetch, of any method, domain and body, against a
\* store that earlier offers on a.com have filled.
FewHeaders == {NoHeader, ValidAuth, Bearer(<<"x">>), Header(<<AUTH_TOKEN>>)}
StoredMethods == Methods \cup {"HEAD", "PUT"}
StoredDomainParams == DomainParams \cup {Str("b.org")}
StoredBodies ==
  Bodies \cup {NullBody, OfferB,
               Body(Str(""), Num(500), Undefined),
               Body(Str("a@b.com"), Num(0), Undefined),
               Body(Str("a@b.com"), Undefined, Str("note")),
               Body(Undefined, Num(500), Undefined)}
StoredRequests ==
  {Req(m, h, d, b) : m \in StoredMethods, h \in FewHeaders,
                     d \in StoredDomainParams, b \in StoredBodies}

\* The offers accepted on a.com before the request, oldest first.
Earlier == {<<>>, <<OfferOf(OfferB)>>, <<OfferOf(OfferB), OfferOf(OfferA)>>}
\* What submitDomainOffer has stored after accepting them one by one.
StoredAfter(offers) ==
  IF offers = <<>> THEN Undefined
  ELSE Arr([i \in 1..Len(offers) |-> NewOffer(offers[i], 0)])

InitStored ==
  /\ \E offers \in Earlier :
       /\ storage = [o \in ObjectIds |-> [k \in Keys |->
                       IF o = LedgerObject /\ k = StorageKey("a.com")
                       THEN StoredAfter(offers) ELSE Undefined]]
       /\ hist = [o \in ObjectIds |-> [k \in Keys |->
                    IF o = LedgerObject /\ k = StorageKey("a.com")
                    THEN [offers |-> offers, tracks |-> 0, submits |-> Len(offers)]
                    ELSE NoHist]]
  /\ gate = [o \in ObjectIds |-> 0]
  /\ pc = [r \in ReqIds |-> "idle"]
  /\ request = [r \in ReqIds |-> NoRequest]
  /\ call = [r \in ReqIds |-> NoCall]
  /\ stub = [r \in ReqIds |-> NoStub]
  /\ local = [r \in ReqIds |-> Undefined]
  /\ ret = [r \in ReqIds |-> [kind |-> "none"]]
  /\ resp = [r \in ReqIds |-> NoResponse]
  /\ now = 0
  /\ failures = 0
  /\ seen = [r \in ReqIds |-> NoHist]
  /\ began = [r \in ReqIds |-> 0]

NextStored ==
  \/ Arrives(1) /\ \E q \in StoredRequests : Fetch(1, q)
  \/ SubmitGet(1)
  \/ SubmitPut(1)
  \/ GetOffers(1)
  \/ PostRespond(1)
  \/ GetRespond(1)

SpecStored == InitStored /\ [][NextStored]_vars

\* Concurrent calls of the object's four methods.
NextLedger ==
  \/ \E r \in ReqIds : Arrives(r) /\ \E c \in Calls :
       DirectCall(r, c.op, LedgerObject, c.domain, c.offer)
  \/ \E r \in ReqIds : SubmitGet(r)
  \/ \E r \in ReqIds : SubmitPut(r)
  \/ \E r \in ReqIds : GetOffers(r)
  \/ \E r \in ReqIds : TrackGet(r)
  \/ \E r \in ReqIds : TrackPut(r)
  \/ \E r \in ReqIds : GetRequests(r)
  \/ \E r \in ReqIds : DirectReturn(r)

SpecLedger == Init /\ [][NextLedger]_vars

\* Offers submitted to and read from one domain while the clock runs.
Timed ==
  {Req("POST", ValidAuth, Str("a.com"), OfferA),
   Req("GET", ValidAuth, Str("a.com"), [kind |-> "none"])}
NextClock ==
  \/ \E r \in ReqIds : Arrives(r) /\ \E q \in Timed : Fetch(r, q)
  \/ \E r \in ReqIds : SubmitGet(r)
  \/ \E r \in ReqIds : SubmitPut(r)
  \/ \E r \in ReqIds : GetOffers(r)
  \/ \E r \in ReqIds : PostRespond(r)
  \/ \E r \in ReqIds : GetRespond(r)
  \/ Tick

SpecClock == Init /\ [][NextClock]_vars

\* ------------------------------------------------------------------ claims
Done(r) == pc[r] = "done"
IsPost(r) == request[r].method = "POST"
\* A request that fetch treats as a read: neither OPTIONS nor POST.
IsRead(r) == request[r].method \notin {"", "OPTIONS", "POST"}
Ok(r) == Done(r) /\ resp[r].by = "fetch" /\ resp[r].status = 200
PostOk(r) == IsPost(r) /\ Ok(r)
ReadOk(r) == IsRead(r) /\ Ok(r)

\* The offer of a response carries the email, amount and description submitted.
SameFields(json, offer) ==
  /\ json.email = offer.email
  /\ json.amount = offer.amount
  /\ IF offer.description.t = "undefined"
     THEN "description" \notin DOMAIN json
     ELSE "description" \in DOMAIN json /\ json.description = offer.description

\* C1: after offers O1..On were appended to a domain one after another, from
\* an empty storage entry, a read of the domain returns exactly n offers with
\* the email, amount and description of O1..On, in submission order.
C1_ReadReturnsSubmittedInOrder ==
  \A r \in ReqIds :
    ReadOk(r) =>
      LET offers == resp[r].body.json.offers
          submitted == seen[r].offers
      IN /\ Len(offers) = Len(submitted)
         /\ \A i \in 1..Len(submitted) : SameFields(offers[i], submitted[i])

C1_Witness ==
  \E r \in ReqIds :
    /\ ReadOk(r)
    /\ Len(resp[r].body.json.offers) = 2
    /\ resp[r].body.json.offers[1].email # resp[r].body.json.offers[2].email

\* The offer list stored for a domain (empty when no list is stored).
StoredOffers(o, domain) ==
  IF storage[o][StorageKey(domain)].t = "array" THEN storage[o][StorageKey(domain)].a ELSE <<>>
\* Call r of the method returned (it did not throw).
Returned(r, op) == pc[r] \in {"returned", "done"} /\ call[r].op = op /\ ret[r].kind # "exception"

\* C2: each submitDomainOffer call that returns makes the stored list one
\* longer and returns that length as totalOffers; after n calls on a fresh
\* domain the stored length is n and the n-th call returned n.
C2_Step ==
  \A r \in ReqIds :
    (pc[r] = "submit.put" /\ pc'[r] = "returned") =>
      LET k == StorageKey(call[r].domain)
          before == IF storage[stub[r]][k].t = "array" THEN Len(storage[stub[r]][k].a) ELSE 0
      IN /\ storage'[stub[r]][k].t = "array"
         /\ Len(storage'[stub[r]][k].a) = before + 1
         /\ ret'[r].totalOffers = before + 1
C2_Count ==
  /\ \A d \in Domains :
       Len(StoredOffers(idFromName(ObjectName(d)), d)) =
         Len(hist[idFromName(ObjectName(d))][StorageKey(d)].offers)
  /\ \A r \in ReqIds :
       Returned(r, "submitDomainOffer") => ret[r].totalOffers = Len(seen[r].offers)
C2_AppendAddsExactlyOne == []C2_Count /\ [][C2_Step]_vars

C2_Witness ==
  \E r \in ReqIds : Returned(r, "submitDomainOffer") /\ ret[r].totalOffers = 2

\* C3: of the POST requests for one domain in flight together, none loses its
\* offer: each 200 response's offer is in the stored log at the position its
\* totalOffers names, and the totalOffers of two such responses differ.
C3_NoLostOffer ==
  \A r \in ReqIds :
    PostOk(r) =>
      LET log == StoredOffers(stub[r], call[r].domain)
          total == resp[r].body.json.totalOffers
      IN /\ total \in 1..Len(log)
         /\ JsonOffer(log[total]) = resp[r].body.json.offer
         /\ \A p \in ReqIds \ {r} :
              (PostOk(p) /\ call[p].domain = call[r].domain) =>
                resp[p].body.json.totalOffers # total

\* The request that arrived later finished first: the two were in flight together.
C3_Witness ==
  \E r, p \in ReqIds :
    /\ r < p
    /\ PostOk(r) /\ PostOk(p)
    /\ call[p].domain = call[r].domain
    /\ resp[p].body.json.totalOffers < resp[r].body.json.totalOffers

\* The text up to the first space after 'Bearer ': the bearer token of a header value.
BearerToken(v) ==
  LET rest == SubSeq(v, Len(BearerPrefix) + 1, Len(v))
      spaces == {i \in 1..Len(rest) : rest[i] = " "}
      end == IF spaces = {} THEN Len(rest)
             ELSE (CHOOSE i \in spaces : \A j \in spaces : i <= j) - 1
  IN SubSeq(rest, 1, end)
\* The header is present, starts with 'Bearer ' and its bearer token is the secret.
CarriesSecret(auth) ==
  /\ ~auth.null
  /\ StartsWith(auth.v, BearerPrefix)
  /\ BearerToken(auth.v) = <<AUTH_TOKEN>>
\* The header is exactly 'Bearer <secret>'.
ExactCredential(auth) == ~auth.null /\ auth.v = BearerPrefix \o <<AUTH_TOKEN>>

Is401(r) ==
  /\ resp[r].by = "fetch"
  /\ resp[r].status = 401
  /\ resp[r].body = Text("Unauthorized")

\* C4 (as stated): every request, of any method and body, whose Authorization
\* header is missing or does not carry the secret as its bearer token is
\* answered 401.
C4_UnauthorizedAlways401 ==
  \A r \in ReqIds :
    (Done(r) /\ request[r].method # "" /\ ~CarriesSecret(request[r].auth)) => Is401(r)

\* C4 (amended): every request other than OPTIONS, of any method and body,
\* whose Authorization header is missing, does not start with 'Bearer ', or
\* has another bearer token than the secret is answered 401 "Unauthorized".
C4_UnauthorizedNonOptions401 ==
  \A r \in ReqIds :
    (Done(r) /\ request[r].method \notin {"", "OPTIONS"} /\ ~CarriesSecret(request[r].auth)) =>
      Is401(r)

C4_Witness ==
  \E r \in ReqIds :
    /\ Done(r) /\ Is401(r)
    /\ request[r].method = "POST"
    /\ request[r].body = OfferA
    /\ request[r].domain = Str("a.com")
    /\ request[r].auth = Header(<<"x", " ", AUTH_TOKEN>>)

\* C5: every response fetch returns (200, 400 for a missing domain, 400 for
\* an invalid body or missing fields, 401) carries the CORS headers: origin,
\* methods, headers and max-age.
C5_EveryResponseHasCors ==
  \A r \in ReqIds :
    (Done(r) /\ request[r].method # "" /\ resp[r].by = "fetch") => corsHeaders \subseteq resp[r].headers

\* C6: a request whose object method failed on a storage read or write is
\* never answered with a 2xx or 4xx status: it ends in a 5xx.
C6_StorageFailureIs5xx ==
  \A r \in ReqIds :
    (Done(r) /\ request[r].method # "" /\ ret[r] = [kind |-> "exception", name |-> "StorageError"]) =>
      resp[r].status >= 500

\* What getDomainOffers returns as the domain's log; a value that is no array
\* holds no offers.
LogOf(v) == IF OrElse(v, Arr(<<>>)).t = "array" THEN OrElse(v, Arr(<<>>)).a ELSE <<>>
IsPrefix(a, b) == Len(a) <= Len(b) /\ SubSeq(b, 1, Len(a)) = a

\* C7: across the object's four methods, a domain's offer log never shrinks
\* and no appended offer changes: what getDomainOffers returns is a prefix of
\* what it returns at any later time.
C7_LogOnlyGrows ==
  [][\A o \in ObjectIds, k \in Keys : IsPrefix(LogOf(storage[o][k]), LogOf(storage'[o][k]))]_vars

\* C8: on a domain no submitDomainOffer call has touched, the i-th
\* trackDomainRequest call returns requests = i, and getDomainRequests after
\* n such calls returns n.
C8_CounterCounts ==
  \A r \in ReqIds :
    /\ (Returned(r, "trackDomainRequest") /\ seen[r].submits = 0) =>
         ret[r].requests = Num(seen[r].tracks)
    /\ (Returned(r, "getDomainRequests") /\ seen[r].submits = 0) =>
         ret[r].value = Num(seen[r].tracks)

C8_Witness ==
  \E r, p \in ReqIds :
    /\ Returned(r, "getDomainRequests") /\ seen[r].submits = 0 /\ ret[r].value = Num(2)
    /\ Returned(p, "trackDomainRequest") /\ ret[p].requests = Num(2)

\* C9: a request passes the authorization check only if the credential after
\* 'Bearer ' is, in its entirety, the secret; any other header is answered 401.
C9_OnlyExactCredentialPasses ==
  \A r \in ReqIds :
    (Done(r) /\ request[r].method \notin {"", "OPTIONS"} /\ ~ExactCredential(request[r].auth)) =>
      Is401(r)

\* C10: an OPTIONS request, with or without an Authorization header or a
\* domain parameter, is answered 200 with an empty body and the CORS headers,
\* resolves no object and leaves the storage as it was.
C10_PreflightUntouched ==
  \A r \in ReqIds :
    (pc[r] # "idle" /\ request[r].method = "OPTIONS") =>
      /\ Done(r)
      /\ resp[r] = Response(NoBody, 200, corsHeaders)
      /\ stub[r] = NoStub /\ call[r] = NoCall
      /\ storage = [o \in ObjectIds |-> [k \in Keys |-> Undefined]]
      /\ gate = [o \in ObjectIds |-> 0]

C10_Witness ==
  \E r \in ReqIds :
    /\ Done(r) /\ request[r].method = "OPTIONS" /\ resp[r].status = 200
    /\ request[r].auth = NoHeader /\ request[r].domain = Null

\* The request passed the authorization check.
Authorized(r) == CarriesSecret(request[r].auth)
\* The domain parameter is present and not empty.
HasDomain(r) == request[r].domain.t = "string" /\ request[r].domain.s # ""
\* A body field that is absent, empty or zero.
Lacks(v) == v \in {Undefined, Null, Str(""), Num(0)}
\* A POST with a JSON object for a body that lacks its email or its amount.
LacksFields(r) ==
  /\ pc[r] # "idle" /\ IsPost(r) /\ Authorized(r)
  /\ request[r].body.kind = "object"
  /\ (Lacks(request[r].body.email) \/ Lacks(request[r].body.amount))
RefusedFields(r) ==
  /\ Done(r)
  /\ resp[r].by = "fetch" /\ resp[r].status = 400
  /\ resp[r].body = Text("Email and amount are required")
  /\ call[r] = NoCall

\* C11 (as stated): an authorized POST whose JSON body lacks email or amount
\* (absent, empty or zero) is answered 400 'Email and amount are required'
\* and submitDomainOffer is not called.
C11_MissingFieldsAlways400 ==
  \A r \in ReqIds : LacksFields(r) => RefusedFields(r)

\* C11 (amended): the same, for a request that names a domain.
C11_MissingFields400 ==
  \A r \in ReqIds : (LacksFields(r) /\ HasDomain(r)) => RefusedFields(r)

C11_Witness ==
  \E r \in ReqIds :
    /\ LacksFields(r) /\ HasDomain(r) /\ RefusedFields(r)
    /\ request[r].body.email = Str("a@b.com") /\ request[r].body.amount = Num(0)

\* The instance and the key that hold domain d's log.
ObjectOf(d) == <<"id", "domain-offers:" \o d>>
KeyOf(d) == "domain:" \o d
\* The log stored for domain d as a response shows it, empty when absent.
StoredLog(d) ==
  IF storage[ObjectOf(d)][KeyOf(d)] = Undefined THEN <<>>
  ELSE [i \in 1..Len(storage[ObjectOf(d)][KeyOf(d)].a) |->
          JsonOffer(storage[ObjectOf(d)][KeyOf(d)].a[i])]
\* An authorized request that names a domain, of a method that reads.
ReadsDomain(r) == pc[r] # "idle" /\ IsRead(r) /\ Authorized(r) /\ HasDomain(r)

\* C12: an authorized request with a non-empty domain and a method other than
\* POST and OPTIONS is answered, once its storage read has succeeded, 200 with
\* {domain, offers}, offers being the domain's stored log (empty when the key
\* is absent); no step of the request changes the storage.
C12_Answer ==
  \A r \in ReqIds :
    (ReadsDomain(r) /\ Done(r) /\ ret[r].kind # "exception") =>
      /\ resp[r].by = "fetch" /\ resp[r].status = 200
      /\ resp[r].body = [kind |-> "json",
                         json |-> [domain |-> request[r].domain.s,
                                   offers |-> StoredLog(request[r].domain.s)]]
C12_Step ==
  \A r \in ReqIds :
    (pc'[r] # pc[r] /\ IsRead(r)') => storage' = storage
C12_ReadReturnsStoredLog == []C12_Answer /\ [][C12_Step]_vars

C12_Witness ==
  \E r \in ReqIds :
    /\ ReadsDomain(r) /\ Done(r) /\ request[r].method = "PUT"
    /\ resp[r].status = 200 /\ Len(resp[r].body.json.offers) = 2

\* The instant a timestamp names.
Instant(ts) == ts[1] * 100 + ts[2] * 10 + ts[3]
\* Call r of submitDomainOffer appended its offer.
Appended(r) == Returned(r, "submitDomainOffer")
\* Call p of submitDomainOffer, on the same domain, began after call r appended.
BeganAfter(p, r) ==
  /\ p # r /\ call[p].op = "submitDomainOffer" /\ call[p].domain = call[r].domain
  /\ \/ pc[p] = "submit.put"
     \/ Appended(p) /\ ret[p].totalOffers > ret[r].totalOffers
\* The timestamps of a domain's stored log never decrease along the log.
StampsInOrder ==
  \A d \in Domains :
    LET log == StoredOffers(ObjectOf(d), d)
    IN \A i \in 1..Len(log), j \in 1..Len(log) :
         i < j => Instant(log[i].timestamp) <= Instant(log[j].timestamp)

\* C13 (as stated): with a clock that never goes backwards, the timestamp of
\* each appended offer is at or after the time its call began and strictly
\* before the time the next call on that domain begins; the timestamps of a
\* log never decrease.
C13_StampStrictlyBeforeNext ==
  /\ \A r \in ReqIds :
       Appended(r) =>
         /\ began[r] <= Instant(ret[r].offer.timestamp)
         /\ \A p \in ReqIds :
              BeganAfter(p, r) => Instant(ret[r].offer.timestamp) < began[p]
  /\ StampsInOrder

\* C13 (amended): the timestamp is at or after the time its call began and at
\* or before the time the next call on that domain begins; the timestamps of
\* a log never decrease.
C13_StampBetweenCalls ==
  /\ \A r \in ReqIds :
       Appended(r) =>
         /\ began[r] <= Instant(ret[r].offer.timestamp)
         /\ \A p \in ReqIds :
              BeganAfter(p, r) => Instant(ret[r].offer.timestamp) <= began[p]
  /\ StampsInOrder

C13_Witness ==
  \E r, p \in ReqIds :
    /\ Appended(r) /\ Appended(p) /\ BeganAfter(p, r)
    /\ began[r] = 0 /\ Instant(ret[r].offer.timestamp) = 1 /\ began[p] = 1
    /\ Len(StoredOffers(stub[r], call[r].domain)) >= 2

\* An authorized request, not a preflight, without a domain parameter or with
\* an empty one.
LacksDomain(r) ==
  /\ pc[r] # "idle" /\ request[r].method # "OPTIONS" /\ Authorized(r)
  /\ request[r].domain \in {Null, Str("")}

\* C14: an authorized request other than OPTIONS whose domain parameter is
\* missing or empty is answered 400 'Domain parameter is required', and no
\* object is resolved or called for it.
C14_MissingDomain400 ==
  \A r \in ReqIds :
    LacksDomain(r) =>
      /\ Done(r)
      /\ resp[r].by = "fetch" /\ resp[r].status = 400
      /\ resp[r].body = Text("Domain parameter is required")
      /\ stub[r] = NoStub /\ call[r] = NoCall

C14_Witness ==
  \E r \in ReqIds :
    /\ LacksDomain(r) /\ Done(r) /\ resp[r].status = 400
    /\ request[r].domain = Str("") /\ request[r].method = "GET"

\* Request r was answered, and not with 200.
Refused(r) == Done(r) /\ resp[r].status # 200

\* C15: a request that ends in a response other than 200 leaves every stored
\* value as it was: the storage changes only in the step in which a
\* submitDomainOffer call completes its put, and no request whose call did so
\* is answered anything but 200.
C15_RefusedWroteNothing ==
  \A r \in ReqIds : Refused(r) => ret[r].kind # "submit"
C15_OnlyCompletedPutWrites ==
  storage' # storage =>
    \E r \in ReqIds : pc[r] = "submit.put" /\ pc'[r] = "returned" /\ ret'[r].kind = "submit"
C15_NonOkLeavesStorage == []C15_RefusedWroteNothing /\ [][C15_OnlyCompletedPutWrites]_vars

C15_Witness ==
  \E r \in ReqIds :
    /\ Refused(r) /\ resp[r].status = 400
    /\ resp[r].body = Text("Invalid request body")
    /\ call[r].op = "submitDomainOffer" /\ local[r].t = "array"
    /\ Len(StoredOffers(stub[r], call[r].domain)) = 2

\* Request r is for domain d.
IsFor(r, d) == request[r].domain = Str(d)

\* C16: requests for one domain never change what is stored or returned for
\* another: whatever the interleaving, a stored value changes only in a step
\* of a request for the domain it belongs to, each request resolves the
\* instance of its own domain, and a read returns the log of its own domain.
C16_OwnCellOnly ==
  \A o \in ObjectIds, k \in Keys :
    storage'[o][k] # storage[o][k] =>
      \E r \in ReqIds, d \in Domains :
        /\ pc'[r] # pc[r] /\ IsFor(r, d)
        /\ o = ObjectOf(d) /\ k = KeyOf(d)
C16_OwnInstance ==
  \A r \in ReqIds :
    /\ stub[r] # NoStub => \E d \in Domains : IsFor(r, d) /\ stub[r] = ObjectOf(d)
    /\ ReadOk(r) =>
         \E d \in Domains : IsFor(r, d) /\ IsPrefix(resp[r].body.json.offers, StoredLog(d))
C16_DomainsIsolated == []C16_OwnInstance /\ [][C16_OwnCellOnly]_vars

C16_Witness ==
  /\ Len(StoredLog("a.com")) = 1 /\ Len(StoredLog("b.org")) = 1
  /\ \E r \in ReqIds : ReadOk(r) /\ IsFor(r, "a.com") /\ Len(resp[r].body.json.offers) = 1

\* Request r was answered by fetch with this status and text.
AnsweredText(r, status, text) ==
  Done(r) /\ resp[r].by = "fetch" /\ resp[r].status = status /\ resp[r].body = Text(text)

\* C17: fetch checks in a fixed order, the preflight, then the authorization,
\* then the domain, then the POST body: an OPTIONS request is answered 200
\* whatever else it lacks; any other request without the credential is
\* answered 401 even when its domain is missing; an authorized one without a
\* domain is answered 'Domain parameter is required' even when it is a POST
\* whose body lacks its fields; only then is the body of a POST examined.
C17_ChecksInOrder ==
  \A r \in ReqIds :
    pc[r] # "idle" =>
      IF request[r].method = "OPTIONS"
      THEN Done(r) /\ resp[r].status = 200
      ELSE IF ~Authorized(r)
      THEN AnsweredText(r, 401, "Unauthorized")
      ELSE IF ~HasDomain(r)
      THEN AnsweredText(r, 400, "Domain parameter is required")
      ELSE (IsPost(r) /\ request[r].body.kind = "malformed") =>
             AnsweredText(r, 400, "Invalid request body")

C17_Witness ==
  \E r \in ReqIds :
    /\ IsPost(r) /\ Authorized(r) /\ request[r].domain = Null
    /\ request[r].body = EmptyObject
    /\ AnsweredText(r, 400, "Domain parameter is required")

\* C18: when a POST is answered 200 with offer X and totalOffers t for a
\* domain, X is stored at position t of the domain's log from the moment
\* submitDomainOffer returned, and it is at position t of every log of t or
\* more offers that a read of the domain returns, whatever requests follow.
C18_AckedOfferStaysPut ==
  \A r \in ReqIds :
    /\ Appended(r) =>
         /\ ret[r].totalOffers <= Len(StoredLog(call[r].domain))
         /\ StoredLog(call[r].domain)[ret[r].totalOffers] = JsonOffer(ret[r].offer)
    /\ PostOk(r) =>
         LET X == resp[r].body.json.offer
             t == resp[r].body.json.totalOffers
         IN /\ t \in 1..Len(StoredLog(call[r].domain))
            /\ StoredLog(call[r].domain)[t] = X
            /\ \A p \in ReqIds :
                 (ReadOk(p) /\ request[p].domain = request[r].domain
                    /\ Len(resp[p].body.json.offers) >= t) =>
                   resp[p].body.json.offers[t] = X

C18_Witness ==
  \E r, p \in ReqIds :
    /\ PostOk(r) /\ resp[r].body.json.totalOffers = 1
    /\ ReadOk(p) /\ request[p].domain = request[r].domain
    /\ Len(resp[p].body.json.offers) = 2
    /\ resp[p].body.json.offers[2].email # resp[r].body.json.offer.email

\* C19: while the storage is written through fetch only, every offer of every
\* domain's stored log has an email that is not empty and an amount that is
\* not zero.
C19_StoredOffersValid ==
  \A d \in Domains :
    \A i \in 1..Len(StoredOffers(ObjectOf(d), d)) :
      /\ ~Lacks(StoredOffers(ObjectOf(d), d)[i].email)
      /\ ~Lacks(StoredOffers(ObjectOf(d), d)[i].amount)

C19_Witness ==
  \E r \in ReqIds :
    /\ PostOk(r) /\ IsFor(r, "a.com")
    /\ Len(StoredOffers(ObjectOf("a.com"), "a.com")) = 3
    /\ C19_StoredOffersValid

====
